---- MODULE Spec2Model ----
(***************************************************************************)
(* Focus Enforcer firmware (src/src/main.cpp): the session state machine,  *)
(* the lid-sensor interrupt/debounce pipeline and the connection handling  *)
(* of loop().                                                              *)
(*                                                                         *)
(* One iteration of loop() is modelled as the actions                      *)
(*   LoopBegin  (webSocket.loop() with the event it delivers, WiFi check)  *)
(*   IrTestFlag, IrTestElapsed, IrClearFlag, IrReadPin                     *)
(*              (the four steps of processIRInterrupt, between which the   *)
(*               interrupt handler irISR may run)                          *)
(*   LoopRest   (sensor cadence, updateStateMachine, heartbeat).           *)
(* LidEdge is a raw edge on the sensor pin together with irISR.            *)
(* millis() is read as one value during an iteration; it advances between  *)
(* iterations (Advance) and inside the delay() calls of the reconnect      *)
(* paths.                                                                  *)
(***************************************************************************)
EXTENDS Integers, Sequences, FiniteSets, TLC

\* ------------------------------------------------------------------ constants
PREPARE_DURATION_MS == 10000
SENSOR_INTERVAL_MS == 100
HEARTBEAT_INTERVAL_MS == 5000
WIFI_RECONNECT_TIMEOUT == 30000
IR_DEBOUNCE_MS == 50
LCD_UPDATE_INTERVAL_MS == 250
RADAR_DEBOUNCE_MS == 3000
ReconnectDelayMs == 100

\* millis() after setup(): its two unconditional delays (500 ms and 100 ms).
BootMillis == 600

\* unsigned long arithmetic is modular.  The modulus is 2^30 instead of 2^32
\* because the model checker's integers are 32-bit signed; every timeout of
\* the program is far below both.
ClockModulus == 2^30

\* ------------------------------------------------------------------ bounds
\* Clock advances the model lets happen between iterations of loop(): fine
\* ones (half a debounce window each) and coarse ones (a Preparing grace
\* period each).
MaxFine == 3
MaxCoarse == 1
\* A burst of lid edges is counted up to this many edges.
BurstCap == 4
\* WiFi outages the model lets happen.
MaxOutages == 1
\* Clock advances of one reconnect timeout, of one heartbeat interval and of
\* a third of the radar hysteresis window.
MaxLong == 2
MaxBeats == 3
MaxRadar == 4
\* Restarts and boxOpen changes are counted up to these.
RestartCap == 2
ChangeCap == 2

FineStep == IR_DEBOUNCE_MS \div 2
CoarseStep == PREPARE_DURATION_MS
LongStep == WIFI_RECONNECT_TIMEOUT
BeatStep == HEARTBEAT_INTERVAL_MS
RadarStep == RADAR_DEBOUNCE_MS \div 3

Sub(a, b) == (a - b + ClockModulus) % ClockModulus
Add(a, b) == (a + b) % ClockModulus

\* ------------------------------------------------------------------ state
VARIABLES
    currentState, previousState, stateEnterTime, focusStartTime, totalFocusTime,
    irTriggered, irTriggerTime, boxOpen,
    radarPresence, radarLowStartTime,
    isConnectedToBackend, lastSensorRead, lastLcdUpdate, lastHeartbeat,
    wifiReconnecting, wifiReconnectStart,
    pin,          \* raw level of PIN_HALL: TRUE = HIGH = lid open
    wifiUp,       \* WiFi.status() == WL_CONNECTED
    wsSession,    \* the WebSocket client library holds an open session
    now,          \* millis()
    currentMillis,\* loop()'s local copy of millis()
    pc,           \* position of the poll loop inside loop()
    out,          \* messages handed to webSocket.sendTXT by the last action
    act,          \* the last action and its input
    age,          \* clock advances so far: [fine, coarse, long, beat, radar]
    outages,      \* WiFi outages so far
    tick,         \* a STOP/CANCEL delivered in the current iteration
    focusAcc, focusSince, focusRuns, firstFocusAt,   \* history of the session
    burst,        \* history of lid edges: the burst on a settled lid
    streak,       \* history of lid edges: the edges of one debounce window
    sense,        \* history of the raw radar readings given to readRadar
    link,         \* history of the connection
    beat,         \* history of the heartbeat
    wrap,         \* history of the clock: true times of the recorded instants
    lcd           \* what the last action wrote to the display

sessionVars == <<currentState, previousState, stateEnterTime, focusStartTime,
                 totalFocusTime>>
irVars == <<irTriggered, irTriggerTime, boxOpen>>
radarVars == <<radarPresence, radarLowStartTime>>
netVars == <<isConnectedToBackend, lastSensorRead, lastLcdUpdate, lastHeartbeat,
             wifiReconnecting, wifiReconnectStart>>
envVars == <<pin, wifiUp, wsSession>>
focusHist == <<focusAcc, focusSince, focusRuns, firstFocusAt>>
vars == <<sessionVars, irVars, radarVars, netVars, envVars, now, currentMillis,
          pc, out, act, age, outages, tick, focusHist, burst, streak, link, beat,
          sense, wrap, lcd>>

STATE_NAMES == {"IDLE", "PREPARING", "FOCUSING", "PAUSED", "VIOLATION", "ERROR"}

\* Command tokens: the vocabulary and one unknown token.
Tokens == {"START", "STOP", "CANCEL", "PAUSE", "RESUME", "ACKNOWLEDGE", "PING",
           "start"}
NoCommand == "<none>"
\* Inbound text frames: malformed JSON, JSON without "command", JSON with a token.
Payloads ==
    {[wellFormed |-> FALSE, command |-> NoCommand]}
    \cup {[wellFormed |-> TRUE, command |-> c] : c \in Tokens \cup {NoCommand}}

NoPayload == [wellFormed |-> FALSE, command |-> NoCommand]

\* What one call of webSocket.loop() may deliver to webSocketEvent.
Events ==
    {[type |-> t, payload |-> NoPayload] : t \in {"NONE", "DISCONNECTED", "CONNECTED"}}
    \cup {[type |-> "TEXT", payload |-> p] : p \in Payloads}

Session ==
    [currentState |-> currentState, previousState |-> previousState,
     stateEnterTime |-> stateEnterTime, focusStartTime |-> focusStartTime,
     totalFocusTime |-> totalFocusTime]

SetSession(s) ==
    /\ currentState' = s.currentState
    /\ previousState' = s.previousState
    /\ stateEnterTime' = s.stateEnterTime
    /\ focusStartTime' = s.focusStartTime
    /\ totalFocusTime' = s.totalFocusTime

\* ------------------------------------------------------------------ messages
\* Mutant: the connection flag is not tested before sending.
SendStateChange_Unconditional(s, conn, t) ==
    IF s.currentState \in {"VIOLATION", "PAUSED", "IDLE"}
    THEN << [type |-> "state_change",
             previous_state |-> s.previousState,
             current_state |-> s.currentState,
             timestamp |-> t,
             total_focus_time_ms |-> s.totalFocusTime] >>
    ELSE << [type |-> "state_change",
             previous_state |-> s.previousState,
             current_state |-> s.currentState,
             timestamp |-> t] >>

SendStateChange(s, conn, t) ==
    IF ~conn THEN <<>>
    ELSE IF s.currentState \in {"VIOLATION", "PAUSED", "IDLE"}
         THEN << [type |-> "state_change",
                  previous_state |-> s.previousState,
                  current_state |-> s.currentState,
                  timestamp |-> t,
                  total_focus_time_ms |-> s.totalFocusTime] >>
         ELSE << [type |-> "state_change",
                  previous_state |-> s.previousState,
                  current_state |-> s.currentState,
                  timestamp |-> t] >>

\* Mutant: the connection flag is not tested before sending.
SendSensorData_Unconditional(state, box, conn, t) ==
    << [type |-> "sensor_data", state |-> state, box_open |-> box,
        timestamp |-> t] >>

SendSensorData(state, box, conn, t) ==
    IF ~conn THEN <<>>
    ELSE << [type |-> "sensor_data", state |-> state, box_open |-> box,
             timestamp |-> t] >>

SendHeartbeat(state, t) ==
    << [type |-> "heartbeat", state |-> state, uptime |-> t \div 1000] >>

HardwareConnect == [type |-> "hardware_connect"]
Pong == [type |-> "pong"]

\* ------------------------------------------------------------------ session
\* Mutant: on entering Paused or Violation the interval replaces the total
\* (= instead of +=).
EntryAction_Overwrite(s1, newState, t) ==
    CASE newState = "IDLE" -> [s1 EXCEPT !.totalFocusTime = 0]
      [] newState = "FOCUSING" -> [s1 EXCEPT !.focusStartTime = t]
      [] newState \in {"PAUSED", "VIOLATION"} ->
           IF s1.previousState = "FOCUSING"
           THEN [s1 EXCEPT !.totalFocusTime = Sub(t, s1.focusStartTime)]
           ELSE s1
      [] OTHER -> s1

\* Mutant: entering Idle from Focusing adds the running interval instead of
\* clearing the total.
EntryAction_IdleAddsInterval(s1, newState, t) ==
    CASE newState = "IDLE" ->
           IF s1.previousState = "FOCUSING"
           THEN [s1 EXCEPT !.totalFocusTime =
                     Add(s1.totalFocusTime, Sub(t, s1.focusStartTime))]
           ELSE [s1 EXCEPT !.totalFocusTime = 0]
      [] newState = "FOCUSING" -> [s1 EXCEPT !.focusStartTime = t]
      [] newState \in {"PAUSED", "VIOLATION"} ->
           IF s1.previousState = "FOCUSING"
           THEN [s1 EXCEPT !.totalFocusTime =
                     Add(s1.totalFocusTime, Sub(t, s1.focusStartTime))]
           ELSE s1
      [] OTHER -> s1

\* Mutant: entering Idle does not clear the total.
EntryAction_IdleKeepsTotal(s1, newState, t) ==
    CASE newState = "FOCUSING" -> [s1 EXCEPT !.focusStartTime = t]
      [] newState \in {"PAUSED", "VIOLATION"} ->
           IF s1.previousState = "FOCUSING"
           THEN [s1 EXCEPT !.totalFocusTime =
                     Add(s1.totalFocusTime, Sub(t, s1.focusStartTime))]
           ELSE s1
      [] OTHER -> s1

\* The switch of enterState: the entry action of the new state, applied to
\* the session s1 in which previous, current and enter time are already set.
EntryAction(s1, newState, t) ==
    CASE newState = "IDLE" -> [s1 EXCEPT !.totalFocusTime = 0]
      [] newState = "FOCUSING" -> [s1 EXCEPT !.focusStartTime = t]
      [] newState \in {"PAUSED", "VIOLATION"} ->
           IF s1.previousState = "FOCUSING"
           THEN [s1 EXCEPT !.totalFocusTime =
                     Add(s1.totalFocusTime, Sub(t, s1.focusStartTime))]
           ELSE s1
      [] OTHER -> s1

\* Mutant: no early return for the current state.
EnterState_NoSelfCheck(s, newState, conn, t) ==
    LET s1 == [s EXCEPT !.previousState = s.currentState,
                        !.currentState = newState,
                        !.stateEnterTime = t]
        s2 == EntryAction(s1, newState, t)
    IN [s |-> s2, out |-> SendStateChange(s2, conn, t)]

EnterState(s, newState, conn, t) ==
    IF newState = s.currentState THEN [s |-> s, out |-> <<>>]
    ELSE
      LET s1 == [s EXCEPT !.previousState = s.currentState,
                          !.currentState = newState,
                          !.stateEnterTime = t]
          s2 == EntryAction(s1, newState, t)
      IN [s |-> s2, out |-> SendStateChange(s2, conn, t)]

\* A command that is dropped, or that changes nothing.
Unhandled(s) == [s |-> s, out |-> <<>>]

\* Mutant: tokens are compared without regard to case.
HandleCommand_IgnoresCase(s, payload, conn, t) ==
    IF ~payload.wellFormed \/ payload.command = NoCommand THEN Unhandled(s)
    ELSE
      LET command == payload.command IN
      CASE command \in {"START", "start"} ->
             IF s.currentState = "IDLE" THEN EnterState(s, "PREPARING", conn, t)
             ELSE Unhandled(s)
        [] command \in {"STOP", "CANCEL"} -> EnterState(s, "IDLE", conn, t)
        [] command = "PAUSE" ->
             IF s.currentState = "FOCUSING" THEN EnterState(s, "PAUSED", conn, t)
             ELSE Unhandled(s)
        [] command = "RESUME" ->
             IF s.currentState = "PAUSED"
             THEN LET r == EnterState(s, "FOCUSING", conn, t)
                  IN [s |-> [r.s EXCEPT !.focusStartTime = t], out |-> r.out]
             ELSE Unhandled(s)
        [] command = "ACKNOWLEDGE" ->
             IF s.currentState = "VIOLATION" THEN EnterState(s, "IDLE", conn, t)
             ELSE Unhandled(s)
        [] command = "PING" -> [s |-> s, out |-> <<Pong>>]
        [] OTHER -> Unhandled(s)

\* Mutant: START is not guarded by the Idle state.
HandleCommand_StartUnguarded(s, payload, conn, t) ==
    IF ~payload.wellFormed \/ payload.command = NoCommand THEN Unhandled(s)
    ELSE
      LET command == payload.command IN
      CASE command = "START" -> EnterState(s, "PREPARING", conn, t)
        [] command \in {"STOP", "CANCEL"} -> EnterState(s, "IDLE", conn, t)
        [] command = "PAUSE" ->
             IF s.currentState = "FOCUSING" THEN EnterState(s, "PAUSED", conn, t)
             ELSE Unhandled(s)
        [] command = "RESUME" ->
             IF s.currentState = "PAUSED"
             THEN LET r == EnterState(s, "FOCUSING", conn, t)
                  IN [s |-> [r.s EXCEPT !.focusStartTime = t], out |-> r.out]
             ELSE Unhandled(s)
        [] command = "ACKNOWLEDGE" ->
             IF s.currentState = "VIOLATION" THEN EnterState(s, "IDLE", conn, t)
             ELSE Unhandled(s)
        [] command = "PING" -> [s |-> s, out |-> <<Pong>>]
        [] OTHER -> Unhandled(s)

\* Mutant: STOP and CANCEL are honoured only while a session is running
\* (Focusing or Paused).
HandleCommand_StopOnlyRunning(s, payload, conn, t) ==
    IF ~payload.wellFormed \/ payload.command = NoCommand THEN Unhandled(s)
    ELSE
      LET command == payload.command IN
      CASE command = "START" ->
             IF s.currentState = "IDLE" THEN EnterState(s, "PREPARING", conn, t)
             ELSE Unhandled(s)
        [] command \in {"STOP", "CANCEL"} ->
             IF s.currentState \in {"FOCUSING", "PAUSED"}
             THEN EnterState(s, "IDLE", conn, t)
             ELSE Unhandled(s)
        [] command = "PAUSE" ->
             IF s.currentState = "FOCUSING" THEN EnterState(s, "PAUSED", conn, t)
             ELSE Unhandled(s)
        [] command = "RESUME" ->
             IF s.currentState = "PAUSED"
             THEN LET r == EnterState(s, "FOCUSING", conn, t)
                  IN [s |-> [r.s EXCEPT !.focusStartTime = t], out |-> r.out]
             ELSE Unhandled(s)
        [] command = "ACKNOWLEDGE" ->
             IF s.currentState = "VIOLATION" THEN EnterState(s, "IDLE", conn, t)
             ELSE Unhandled(s)
        [] command = "PING" -> [s |-> s, out |-> <<Pong>>]
        [] OTHER -> Unhandled(s)

HandleCommand(s, payload, conn, t) ==
    IF ~payload.wellFormed \/ payload.command = NoCommand
    THEN [s |-> s, out |-> <<>>]
    ELSE
      LET command == payload.command IN
      CASE command = "START" ->
             IF s.currentState = "IDLE" THEN EnterState(s, "PREPARING", conn, t)
             ELSE [s |-> s, out |-> <<>>]
        [] command \in {"STOP", "CANCEL"} ->
             EnterState(s, "IDLE", conn, t)
        [] command = "PAUSE" ->
             IF s.currentState = "FOCUSING" THEN EnterState(s, "PAUSED", conn, t)
             ELSE [s |-> s, out |-> <<>>]
        [] command = "RESUME" ->
             IF s.currentState = "PAUSED"
             THEN LET r == EnterState(s, "FOCUSING", conn, t)
                  IN [s |-> [r.s EXCEPT !.focusStartTime = t], out |-> r.out]
             ELSE [s |-> s, out |-> <<>>]
        [] command = "ACKNOWLEDGE" ->
             IF s.currentState = "VIOLATION" THEN EnterState(s, "IDLE", conn, t)
             ELSE [s |-> s, out |-> <<>>]
        [] command = "PING" -> [s |-> s, out |-> <<Pong>>]
        [] OTHER -> [s |-> s, out |-> <<>>]

\* Mutant: the grace period is compared in seconds.
HandlePreparingState_Seconds(s, conn, t) ==
    IF Sub(t, s.stateEnterTime) >= PREPARE_DURATION_MS \div 1000
    THEN EnterState(s, "FOCUSING", conn, t)
    ELSE [s |-> s, out |-> <<>>]

HandlePreparingState(s, conn, t) ==
    IF Sub(t, s.stateEnterTime) >= PREPARE_DURATION_MS
    THEN EnterState(s, "FOCUSING", conn, t)
    ELSE [s |-> s, out |-> <<>>]

UpdateStateMachine(s, conn, t) ==
    IF s.currentState = "PREPARING" THEN HandlePreparingState(s, conn, t)
    ELSE [s |-> s, out |-> <<>>]

\* webSocketEvent: the session, the connected flag and the messages sent.
\* Mutant: the connected event sets the flag without registering the hardware.
WebSocketEvent_NoHello(s, conn, ev, t) ==
    CASE ev.type = "DISCONNECTED" -> [s |-> s, conn |-> FALSE, out |-> <<>>]
      [] ev.type = "CONNECTED" -> [s |-> s, conn |-> TRUE, out |-> <<>>]
      [] ev.type = "TEXT" ->
           LET r == HandleCommand(s, ev.payload, conn, t)
           IN [s |-> r.s, conn |-> conn, out |-> r.out]
      [] OTHER -> [s |-> s, conn |-> conn, out |-> <<>>]

WebSocketEvent(s, conn, ev, t) ==
    CASE ev.type = "DISCONNECTED" -> [s |-> s, conn |-> FALSE, out |-> <<>>]
      [] ev.type = "CONNECTED" -> [s |-> s, conn |-> TRUE, out |-> <<HardwareConnect>>]
      [] ev.type = "TEXT" ->
           LET r == HandleCommand(s, ev.payload, conn, t)
           IN [s |-> r.s, conn |-> conn, out |-> r.out]
      [] OTHER -> [s |-> s, conn |-> conn, out |-> <<>>]

\* ------------------------------------------------------------------ history
\* The Focusing intervals of the current session, observed on currentState.
ObserveFocus ==
    LET entering == currentState # "FOCUSING" /\ currentState' = "FOCUSING"
        leaving == currentState = "FOCUSING" /\ currentState' # "FOCUSING"
        ended == currentState' = "IDLE"
    IN /\ focusSince' = IF entering THEN now' ELSE focusSince
       /\ focusAcc' = IF ended THEN 0
                      ELSE IF leaving THEN focusAcc + Sub(now', focusSince)
                      ELSE focusAcc
       /\ focusRuns' = IF ended THEN 0
                       ELSE IF entering /\ focusRuns < 3 THEN focusRuns + 1
                       ELSE focusRuns
       /\ firstFocusAt' = IF entering /\ focusRuns = 0 THEN now' ELSE firstFocusAt

NoBurst == [n |-> 0, first |-> 0, last |-> 0, opening |-> FALSE, focusing |-> FALSE]

NoEvent == [type |-> "NONE", payload |-> NoPayload]
NoStop == [stop |-> FALSE, from |-> "IDLE", timerDue |-> FALSE, lidDue |-> FALSE]

NoStreak == [seen |-> FALSE, n |-> 0, first |-> 0, last |-> 0, changes |-> 0]
NoLink == [wasConnected |-> FALSE, offlineSince |-> 0, downSeen |-> FALSE,
           downSeenAt |-> 0, restarts |-> 0, outageMs |-> 0, hello |-> FALSE]
NoBeat == [n |-> 0, at |-> 0]

\* The record kept of the last action: its name, the event webSocket.loop()
\* delivered (LoopBegin) and the burst of edges it resolved (IrReadPin).
NoWrap == [clock |-> 0, edgeAt |-> 0, enterAt |-> 0, outageAt |-> 0, absentAt |-> 0]
NoSense == [calls |-> 0, at |-> 0, raw |-> FALSE, seen |-> FALSE, presentAt |-> 0]

Did(name) == [name |-> name, ev |-> NoEvent, burst |-> NoBurst]

\* ------------------------------------------------------------------ init
Init ==
    /\ currentState = "IDLE" /\ previousState = "IDLE"
    /\ stateEnterTime = 0 /\ focusStartTime = 0 /\ totalFocusTime = 0
    /\ irTriggered = FALSE /\ irTriggerTime = 0
    /\ pin \in BOOLEAN /\ boxOpen = pin
    /\ radarPresence = FALSE /\ radarLowStartTime = 0
    /\ isConnectedToBackend = FALSE
    /\ lastSensorRead = 0 /\ lastLcdUpdate = 0 /\ lastHeartbeat = 0
    /\ wifiReconnecting = FALSE /\ wifiReconnectStart = 0
    /\ wifiUp \in BOOLEAN /\ wsSession = FALSE
    /\ now = BootMillis /\ currentMillis = 0
    /\ pc = "loop"
    /\ out = <<>>
    /\ act = Did("setup")
    /\ age = [fine |-> 0, coarse |-> 0, long |-> 0, beat |-> 0, radar |-> 0] /\ outages = 0
    /\ tick = NoStop
    /\ focusAcc = 0 /\ focusSince = 0 /\ focusRuns = 0 /\ firstFocusAt = 0
    /\ burst = NoBurst
    /\ streak = NoStreak
    /\ link = NoLink
    /\ beat = NoBeat
    /\ sense = NoSense
    /\ wrap = NoWrap
    /\ lcd = <<>>

\* ------------------------------------------------------------------ environment
Advance(d) ==
    /\ pc = "loop"
    /\ now' = Add(now, d)
    /\ out' = <<>>
    /\ act' = Did("Advance")
    /\ UNCHANGED <<sessionVars, radarVars, irVars, netVars, envVars, currentMillis, pc,
                   outages, tick>>

AdvanceFine ==
    /\ age.fine < MaxFine
    /\ age' = [age EXCEPT !.fine = @ + 1]
    /\ Advance(FineStep)

AdvanceCoarse ==
    /\ age.coarse < MaxCoarse
    /\ age' = [age EXCEPT !.coarse = @ + 1]
    /\ Advance(CoarseStep)

AdvanceLong ==
    /\ age.long < MaxLong
    /\ age' = [age EXCEPT !.long = @ + 1]
    /\ Advance(LongStep)

AdvanceBeat ==
    /\ age.beat < MaxBeats
    /\ age' = [age EXCEPT !.beat = @ + 1]
    /\ Advance(BeatStep)

AdvanceRadar ==
    /\ age.radar < MaxRadar
    /\ age' = [age EXCEPT !.radar = @ + 1]
    /\ Advance(RadarStep)

WifiDrop ==
    /\ pc = "loop" /\ wifiUp /\ outages < MaxOutages
    /\ wifiUp' = FALSE
    /\ outages' = outages + 1
    /\ out' = <<>>
    /\ act' = Did("WifiDrop")
    /\ UNCHANGED <<sessionVars, radarVars, irVars, netVars, pin, wsSession, now, currentMillis,
                   pc, age, tick>>

WifiRestore ==
    /\ pc = "loop" /\ ~wifiUp
    /\ wifiUp' = TRUE
    /\ out' = <<>>
    /\ act' = Did("WifiRestore")
    /\ UNCHANGED <<sessionVars, radarVars, irVars, netVars, pin, wsSession, now, currentMillis,
                   pc, age, outages, tick>>

\* Mutant: the handler sets the flag but keeps the old timestamp.
IrISR_NoTimestamp ==
    /\ irTriggered' = TRUE
    /\ irTriggerTime' = irTriggerTime

\* A raw edge on the pin, and irISR, which the edge runs at once.
IrISR ==
    /\ irTriggered' = TRUE
    /\ irTriggerTime' = now

\* The poll loop is between the flag test and the pin read of processIRInterrupt.
Processing == pc \in {"ir_elapsed", "ir_clear", "ir_read"}

\* The lid is settled: no edge is pending or being processed and the debounced
\* level is the raw level.
Settled == ~irTriggered /\ ~Processing /\ boxOpen = pin

\* The current burst of lid edges, observed on LidEdge and IrReadPin.  A burst
\* starts at an edge on a settled lid, grows with every further edge and ends
\* when the debounce step reads the pin.  An edge on a lid that is not settled
\* while no burst is recorded belongs to no burst.
ObserveBurst ==
    burst' =
      CASE act'.name = "LidEdge" ->
             IF Settled
             THEN [n |-> 1, first |-> now, last |-> now, opening |-> ~pin,
                   focusing |-> currentState = "FOCUSING"]
             ELSE IF burst.n > 0
             THEN [burst EXCEPT !.n = IF @ < BurstCap THEN @ + 1 ELSE @,
                                !.last = now]
             ELSE NoBurst
        [] act'.name \in {"IrReadPin", "Restart"} -> NoBurst
        [] OTHER -> burst

LidEdge ==
    /\ pin' = ~pin
    /\ IrISR
    /\ out' = <<>>
    /\ act' = Did("LidEdge")
    /\ UNCHANGED <<sessionVars, radarVars, boxOpen, netVars, wifiUp, wsSession, now,
                   currentMillis, pc, age, outages, tick>>

\* ------------------------------------------------------------------ loop()
\* ESP.restart(): the board reboots and setup() runs again.
Restart ==
    /\ currentState' = "IDLE" /\ previousState' = "IDLE"
    /\ stateEnterTime' = 0 /\ focusStartTime' = 0 /\ totalFocusTime' = 0
    /\ irTriggered' = FALSE /\ irTriggerTime' = 0
    /\ boxOpen' = pin
    /\ radarPresence' = FALSE /\ radarLowStartTime' = 0
    /\ isConnectedToBackend' = FALSE
    /\ lastSensorRead' = 0 /\ lastLcdUpdate' = 0 /\ lastHeartbeat' = 0
    /\ wifiReconnecting' = FALSE /\ wifiReconnectStart' = 0
    /\ wsSession' = FALSE
    /\ now' = BootMillis /\ currentMillis' = 0
    /\ pc' = "loop"
    /\ UNCHANGED <<pin, wifiUp, age>>

\* Which events the WebSocket client library can deliver in this call.
Deliverable(ev) ==
    CASE ev.type = "CONNECTED" -> wifiUp /\ ~wsSession
      [] ev.type = "TEXT" -> wsSession
      [] OTHER -> TRUE

\* Mutant: the start of the outage is not recorded.
BeginReconnect_NoTimestamp ==
    /\ wifiReconnecting' = TRUE
    /\ wifiReconnectStart' = wifiReconnectStart
    /\ isConnectedToBackend' = FALSE
    /\ now' = Add(now, ReconnectDelayMs)

\* handleWiFiReconnect, first call of an outage.
BeginReconnect ==
    /\ wifiReconnecting' = TRUE
    /\ wifiReconnectStart' = now
    /\ isConnectedToBackend' = FALSE
    /\ now' = Add(now, ReconnectDelayMs)

\* The reconnect epilogue of loop(): WiFi is back.  webSocket.disconnect()
\* closes the session; open is whether a session was open.
\* Mutant: wifiReconnecting is not cleared.
EndReconnect_KeepsReconnecting(open, conn) ==
    /\ wifiReconnecting' = wifiReconnecting
    /\ isConnectedToBackend' = IF open THEN FALSE ELSE conn
    /\ wsSession' = FALSE
    /\ now' = Add(now, ReconnectDelayMs)

EndReconnect(open, conn) ==
    /\ wifiReconnecting' = FALSE
    /\ isConnectedToBackend' = IF open THEN FALSE ELSE conn
    /\ wsSession' = FALSE
    /\ now' = Add(now, ReconnectDelayMs)

\* Mutant: the timeout is compared in seconds.
ReconnectTimedOut_Seconds(t, start) == Sub(t, start) > WIFI_RECONNECT_TIMEOUT \div 1000

\* millis() - wifiReconnectStart > WIFI_RECONNECT_TIMEOUT
ReconnectTimedOut(t, start) == Sub(t, start) > WIFI_RECONNECT_TIMEOUT

\* handleWiFiReconnect is about to call ESP.restart().
Restarting ==
    /\ ~wifiUp /\ wifiReconnecting
    /\ ReconnectTimedOut(now, wifiReconnectStart)

\* loop() up to and including the WiFi check: webSocket.loop(), then either
\* handleWiFiReconnect and return, or the reconnect epilogue, or nothing.
LoopBegin(ev) ==
    /\ pc = "loop"
    /\ Deliverable(ev)
    /\ UNCHANGED outages
    /\ LET r == WebSocketEvent(Session, isConnectedToBackend, ev, now)
           session1 == IF ev.type = "CONNECTED" THEN TRUE
                       ELSE IF ev.type = "DISCONNECTED" THEN FALSE
                       ELSE wsSession
       IN
       /\ (~Restarting => act' = [Did("LoopBegin") EXCEPT !.ev = ev])
       /\ tick' = IF ev.type = "TEXT" /\ ev.payload.wellFormed
                     /\ ev.payload.command \in {"STOP", "CANCEL"}
                  THEN [stop |-> TRUE, from |-> currentState,
                        timerDue |-> /\ currentState = "PREPARING"
                                     /\ Sub(now, stateEnterTime) >= PREPARE_DURATION_MS,
                        lidDue |-> /\ currentState = "FOCUSING"
                                   /\ irTriggered /\ pin /\ ~boxOpen
                                   /\ Sub(now, irTriggerTime) >= IR_DEBOUNCE_MS]
                  ELSE NoStop
       /\ out' = r.out
       /\ IF ~wifiUp
          THEN IF ~wifiReconnecting
               THEN /\ SetSession(r.s)
                    /\ BeginReconnect
                    /\ wsSession' = session1
                    /\ currentMillis' = 0
                    /\ pc' = "loop"
                    /\ UNCHANGED <<irVars, radarVars, lastSensorRead, lastLcdUpdate, lastHeartbeat, pin, wifiUp,
                                   age>>
               ELSE IF Restarting
               THEN Restart /\ act' = [Did("Restart") EXCEPT !.ev = ev]
               ELSE /\ SetSession(r.s)
                    /\ isConnectedToBackend' = r.conn
                    /\ wsSession' = session1
                    /\ currentMillis' = 0
                    /\ pc' = "loop"
                    /\ UNCHANGED <<irVars, radarVars, lastSensorRead, lastLcdUpdate, lastHeartbeat,
                                   wifiReconnecting, wifiReconnectStart, pin, wifiUp,
                                   now, age>>
          ELSE IF wifiReconnecting
          THEN \* webSocket.disconnect() reports DISCONNECTED for an open session
               /\ SetSession(r.s)
               /\ EndReconnect(session1, r.conn)
               /\ currentMillis' = now
               /\ pc' = "ir_flag"
               /\ UNCHANGED <<irVars, radarVars, lastSensorRead, lastLcdUpdate, lastHeartbeat,
                              wifiReconnectStart, pin, wifiUp, age>>
          ELSE /\ SetSession(r.s)
               /\ isConnectedToBackend' = r.conn
               /\ wsSession' = session1
               /\ currentMillis' = now
               /\ pc' = "ir_flag"
               /\ UNCHANGED <<irVars, radarVars, lastSensorRead, lastLcdUpdate, lastHeartbeat,
                              wifiReconnecting, wifiReconnectStart, pin, wifiUp,
                              now, age>>

\* ------------------------------------------------------------------ processIRInterrupt
\* if (!irTriggered) return;
IrTestFlag ==
    /\ pc = "ir_flag"
    /\ pc' = IF irTriggered THEN "ir_elapsed" ELSE "rest"
    /\ out' = <<>>
    /\ act' = Did("IrTestFlag")
    /\ UNCHANGED <<sessionVars, radarVars, irVars, netVars, envVars, now, currentMillis, age,
                   outages, tick>>

\* Mutant: the operands of the unsigned subtraction are swapped.
DebounceElapsed_Swapped(t, triggerTime) == Sub(triggerTime, t) >= IR_DEBOUNCE_MS

DebounceElapsed(t, triggerTime) == Sub(t, triggerTime) >= IR_DEBOUNCE_MS

\* if (millis() - irTriggerTime < IR_DEBOUNCE_MS) return;
IrTestElapsed ==
    /\ pc = "ir_elapsed"
    /\ pc' = IF DebounceElapsed(now, irTriggerTime) THEN "ir_clear" ELSE "rest"
    /\ out' = <<>>
    /\ act' = Did("IrTestElapsed")
    /\ UNCHANGED <<sessionVars, radarVars, irVars, netVars, envVars, now, currentMillis, age,
                   outages, tick>>

\* irTriggered = false;
IrClearFlag ==
    /\ pc = "ir_clear"
    /\ irTriggered' = FALSE
    /\ pc' = "ir_read"
    /\ out' = <<>>
    /\ act' = Did("IrClearFlag")
    /\ UNCHANGED <<sessionVars, radarVars, irTriggerTime, boxOpen, netVars, envVars, now,
                   currentMillis, age, outages, tick>>

\* Mutant: the pin polarity is inverted (a closing lid is the violation).
LidChanged_Inverted(s, box, newState, conn, t) ==
    IF newState # box /\ ~newState /\ s.currentState = "FOCUSING"
    THEN EnterState(s, "VIOLATION", conn, t)
    ELSE [s |-> s, out |-> <<>>]

\* Mutant: an opening lid is a violation in every state.
LidChanged_AnyState(s, box, newState, conn, t) ==
    IF newState # box /\ newState
    THEN EnterState(s, "VIOLATION", conn, t)
    ELSE [s |-> s, out |-> <<>>]

\* The pin read and what follows it: the session and messages after the read.
LidChanged(s, box, newState, conn, t) ==
    IF newState # box /\ newState /\ s.currentState = "FOCUSING"
    THEN EnterState(s, "VIOLATION", conn, t)
    ELSE [s |-> s, out |-> <<>>]

IrReadPin ==
    /\ pc = "ir_read"
    /\ LET r == LidChanged(Session, boxOpen, pin, isConnectedToBackend, now)
       IN /\ boxOpen' = pin
          /\ SetSession(r.s)
          /\ out' = r.out
    /\ pc' = "rest"
    /\ act' = [Did("IrReadPin") EXCEPT !.burst = burst]
    /\ UNCHANGED <<irTriggered, irTriggerTime, radarVars, netVars, envVars, now, currentMillis,
                   age, outages, tick>>

\* ------------------------------------------------------------------ rest of loop()
\* Mutant: the absence window is measured from boot instead of from the first
\* absent reading.
ReadRadar_NoWindowStart(presence, lowStart, rawReading, t) ==
    IF rawReading
    THEN [presence |-> TRUE, lowStart |-> 0]
    ELSE [presence |-> IF Sub(t, lowStart) >= RADAR_DEBOUNCE_MS
                       THEN FALSE ELSE presence,
          lowStart |-> lowStart]

\* The hysteresis of readRadar on the raw reading rawReading at millis() = t.
ReadRadar(presence, lowStart, rawReading, t) ==
    IF rawReading
    THEN [presence |-> TRUE, lowStart |-> 0]
    ELSE LET started == IF presence /\ lowStart = 0 THEN t ELSE lowStart
         IN [presence |-> IF started > 0 /\ Sub(t, started) >= RADAR_DEBOUNCE_MS
                          THEN FALSE ELSE presence,
             lowStart |-> started]

SensorDue(cm, last) == Sub(cm, last) >= SENSOR_INTERVAL_MS

LcdDue(cm, last) == Sub(cm, last) >= LCD_UPDATE_INTERVAL_MS

\* lcdShowPreparing: remaining = PREPARE_DURATION_MS - (millis() - stateEnterTime)
\* in unsigned long arithmetic, and the seconds it prints.
LcdShowPreparing(t, enterTime) ==
    LET remaining == Sub(PREPARE_DURATION_MS, Sub(t, enterTime))
    IN [screen |-> "PREPARING", remaining |-> remaining,
        seconds |-> remaining \div 1000]

\* updateLCD: what it writes to the display; only the Preparing screen shows
\* a value computed from the clock that the model keeps.
UpdateLCD(state, t, enterTime) ==
    IF state = "PREPARING" THEN <<LcdShowPreparing(t, enterTime)>>
    ELSE <<[screen |-> state]>>

\* Mutant: the connection flag is not part of the heartbeat condition.
HeartbeatDue_IgnoresConnection(conn, cm, last) ==
    Sub(cm, last) >= HEARTBEAT_INTERVAL_MS

HeartbeatDue(conn, cm, last) == conn /\ Sub(cm, last) >= HEARTBEAT_INTERVAL_MS

LoopRest ==
    /\ pc = "rest"
    /\ LET sensorOut == IF SensorDue(currentMillis, lastSensorRead)
                        THEN SendSensorData(currentState, boxOpen,
                                            isConnectedToBackend, now)
                        ELSE <<>>
           r == UpdateStateMachine(Session, isConnectedToBackend, now)
           hb == HeartbeatDue(isConnectedToBackend, currentMillis, lastHeartbeat)
       IN /\ lastSensorRead' = IF SensorDue(currentMillis, lastSensorRead)
                               THEN currentMillis ELSE lastSensorRead
          /\ IF SensorDue(currentMillis, lastSensorRead)
             THEN \* readSensors: readRadar takes radarPresence as its raw reading
                  LET radar == ReadRadar(radarPresence, radarLowStartTime,
                                         radarPresence, now)
                  IN /\ radarPresence' = radar.presence
                     /\ radarLowStartTime' = radar.lowStart
             ELSE UNCHANGED radarVars
          /\ lastLcdUpdate' = IF LcdDue(currentMillis, lastLcdUpdate)
                              THEN currentMillis ELSE lastLcdUpdate
          /\ SetSession(r.s)
          /\ lastHeartbeat' = IF hb THEN currentMillis ELSE lastHeartbeat
          /\ out' = sensorOut \o r.out
                    \o (IF hb THEN SendHeartbeat(r.s.currentState, now) ELSE <<>>)
    /\ pc' = "loop"
    /\ currentMillis' = 0
    /\ act' = Did("LoopRest")
    /\ UNCHANGED <<irVars, isConnectedToBackend, wifiReconnecting,
                   wifiReconnectStart, envVars, now, age, outages, tick>>

\* ------------------------------------------------------------------ specification
\* The events the session claims are checked with: link events and the
\* commands that act on the session.
SessionEvents ==
    {ev \in Events : ev.type = "TEXT" =>
        /\ ev.payload.wellFormed
        /\ ev.payload.command \in {"START", "STOP", "CANCEL", "PAUSE", "RESUME",
                                    "ACKNOWLEDGE"}}

\* The session history is recorded; the other histories are not.
Observe == ObserveFocus /\ UNCHANGED <<burst, streak, link, beat, sense, wrap, lcd>>

Next ==
    \/ (\E ev \in SessionEvents : LoopBegin(ev)) /\ Observe
    \/ IrTestFlag /\ Observe
    \/ IrTestElapsed /\ Observe
    \/ IrClearFlag /\ Observe
    \/ IrReadPin /\ Observe
    \/ LoopRest /\ Observe
    \/ LidEdge /\ Observe
    \/ AdvanceFine /\ Observe
    \/ AdvanceCoarse /\ Observe

Spec == Init /\ [][Next]_vars

\* The same loop with WiFi outages, under the link events and START.
WifiEvents ==
    {ev \in Events : ev.type = "TEXT" =>
        /\ ev.payload.wellFormed
        /\ ev.payload.command = "START"}

NextWifi ==
    \/ (\E ev \in WifiEvents : LoopBegin(ev)) /\ Observe
    \/ IrTestFlag /\ Observe
    \/ IrTestElapsed /\ Observe
    \/ IrClearFlag /\ Observe
    \/ IrReadPin /\ Observe
    \/ LoopRest /\ Observe
    \/ LidEdge /\ Observe
    \/ AdvanceFine /\ Observe
    \/ AdvanceCoarse /\ Observe
    \/ WifiDrop /\ Observe
    \/ WifiRestore /\ Observe

SpecWifi == Init /\ [][NextWifi]_vars

\* The same loop with the bursts of lid edges recorded, under the link events,
\* START and ACKNOWLEDGE.
BounceEvents ==
    {ev \in Events : ev.type = "TEXT" =>
        /\ ev.payload.wellFormed
        /\ ev.payload.command \in {"START", "ACKNOWLEDGE"}}

ObserveEdges == ObserveFocus /\ ObserveBurst /\ UNCHANGED <<streak, link, beat, sense, wrap, lcd>>

NextBounce ==
    \/ (\E ev \in BounceEvents : LoopBegin(ev)) /\ ObserveEdges
    \/ IrTestFlag /\ ObserveEdges
    \/ IrTestElapsed /\ ObserveEdges
    \/ IrClearFlag /\ ObserveEdges
    \/ IrReadPin /\ ObserveEdges
    \/ LoopRest /\ ObserveEdges
    \/ LidEdge /\ ObserveEdges
    \/ AdvanceFine /\ ObserveEdges
    \/ AdvanceCoarse /\ ObserveEdges

SpecBounce == Init /\ [][NextBounce]_vars

\* ------------------------------------------------------------------ connection
Sent(msgs, type) == \E i \in 1..Len(msgs) : msgs[i].type = type

\* The action is loop() from its first statement (LoopBegin, with or without
\* ESP.restart()).
LoopStarted(a) == a.name \in {"LoopBegin", "Restart"}

\* The history of the connection, observed on the WiFi status, the WebSocket
\* events and the messages:
\*   wasConnected, offlineSince  the backend was connected since boot, and the
\*                               time it last stopped being so (or boot);
\*   downSeen, downSeenAt        loop() has seen WiFi down in its last
\*                               iteration, and the time it first did;
\*   restarts, outageMs          restarts in, and length of, the current WiFi
\*                               outage: from the iteration of loop() that
\*                               first saw WiFi down to the next one that
\*                               sees it up;
\*   hello                       hardware_connect was sent on the open session.
ObserveLink ==
    LET begun == LoopStarted(act')
        restarted == act'.name = "Restart"
        connected == begun /\ act'.ev.type = "CONNECTED"
        left == (isConnectedToBackend \/ connected) /\ ~isConnectedToBackend'
    IN link' =
         [wasConnected |-> IF restarted THEN FALSE
                           ELSE link.wasConnected \/ connected,
          offlineSince |-> IF restarted THEN now'
                           ELSE IF left THEN now ELSE link.offlineSince,
          downSeen |-> IF ~begun THEN link.downSeen
                       ELSE IF restarted THEN FALSE ELSE ~wifiUp,
          downSeenAt |-> IF begun /\ ~restarted /\ ~wifiUp /\ ~link.downSeen
                         THEN now ELSE link.downSeenAt,
          restarts |-> IF begun /\ wifiUp THEN 0
                       ELSE IF restarted /\ link.restarts < RestartCap
                       THEN link.restarts + 1 ELSE link.restarts,
          outageMs |-> IF begun /\ wifiUp THEN 0
                       ELSE IF restarted THEN link.outageMs
                       ELSE IF link.downSeen \/ link.restarts > 0
                                \/ (begun /\ ~wifiUp)
                       THEN link.outageMs + Sub(now', now)
                       ELSE 0,
          hello |-> IF Sent(out', "hardware_connect") THEN wsSession'
                    ELSE link.hello /\ wsSession']

\* The same loop with WiFi outages long enough for the reconnect timeout, on a
\* lid that does not move (no edge, so processIRInterrupt returns at its
\* first test), under the link events and START.
ObserveConn == ObserveLink /\ UNCHANGED <<focusHist, burst, streak, beat, sense, wrap, lcd>>

NextLink ==
    \/ (\E ev \in WifiEvents : LoopBegin(ev)) /\ ObserveConn
    \/ IrTestFlag /\ ObserveConn
    \/ LoopRest /\ ObserveConn
    \/ AdvanceCoarse /\ ObserveConn
    \/ AdvanceLong /\ ObserveConn
    \/ WifiDrop /\ ObserveConn
    \/ WifiRestore /\ ObserveConn

SpecLink == Init /\ [][NextLink]_vars

\* ------------------------------------------------------------------ properties
StateChanges(msgs) == SelectSeq(msgs, LAMBDA m : m.type = "state_change")

\* The last action delivered the command token c to handleCommand.
Delivered(a, c) ==
    /\ a.name = "LoopBegin"
    /\ a.ev.type = "TEXT"
    /\ a.ev.payload.wellFormed
    /\ a.ev.payload.command = c

\* C1 as stated: whenever the debounce step reads the pin while the session
\* is Focusing and the raw level is open and has been for the whole debounce
\* window, the session enters Violation and exactly one state_change is
\* emitted, carrying the accumulated focus time.
C1_AsStated ==
    [][ ( /\ pc = "ir_read" /\ pc' = "rest"
          /\ currentState = "FOCUSING" /\ pin
          /\ DebounceElapsed(now, irTriggerTime) )
        => /\ currentState' = "VIOLATION"
           /\ Len(StateChanges(out')) = 1
           /\ StateChanges(out')[1].total_focus_time_ms
                = Add(totalFocusTime, Sub(now, focusStartTime)) ]_vars

\* C1 (amended): when the debounce step reads the pin while the session is
\* Focusing, the debounced level is closed and the raw level is open and has
\* been for the whole debounce window, exactly one transition
\* Focusing->Violation is made, totalFocusTime grows by now - focusStartTime,
\* and the step emits exactly one state_change carrying that total if the
\* backend is connected, and no message otherwise.
C1_ViolationOnStableOpen ==
    [][ ( /\ pc = "ir_read" /\ pc' = "rest"
          /\ currentState = "FOCUSING" /\ pin /\ ~boxOpen
          /\ DebounceElapsed(now, irTriggerTime) )
        => /\ currentState' = "VIOLATION" /\ previousState' = "FOCUSING"
           /\ boxOpen'
           /\ stateEnterTime' = now
           /\ totalFocusTime' = Add(totalFocusTime, Sub(now, focusStartTime))
           /\ out' = IF isConnectedToBackend
                     THEN << [type |-> "state_change",
                              previous_state |-> "FOCUSING",
                              current_state |-> "VIOLATION",
                              timestamp |-> now,
                              total_focus_time_ms |-> totalFocusTime'] >>
                     ELSE <<>> ]_vars

C1_Witness ==
    /\ act.name = "IrReadPin"
    /\ currentState = "VIOLATION" /\ previousState = "FOCUSING"
    /\ Sub(now, irTriggerTime) >= IR_DEBOUNCE_MS
    /\ Len(out) = 1 /\ out[1].type = "state_change"
    /\ out[1].total_focus_time_ms > 0
    /\ out[1].total_focus_time_ms = totalFocusTime

\* C2: a command whose guard does not match the current state leaves the
\* five session variables unchanged and emits nothing.
GuardMismatch(c, state) ==
    \/ c = "START" /\ state # "IDLE"
    \/ c = "PAUSE" /\ state # "FOCUSING"
    \/ c = "RESUME" /\ state # "PAUSED"
    \/ c = "ACKNOWLEDGE" /\ state # "VIOLATION"

C2_MismatchedCommandIsDropped ==
    [][ \A c \in {"START", "PAUSE", "RESUME", "ACKNOWLEDGE"} :
          (Delivered(act', c) /\ GuardMismatch(c, currentState))
          => (UNCHANGED sessionVars /\ out' = <<>>) ]_vars

C2_Witness ==
    /\ Delivered(act, "START")
    /\ currentState = "FOCUSING"
    /\ stateEnterTime # now
    /\ out = <<>>

\* C3: in an iteration of loop() in which STOP or CANCEL was received, the
\* session is Idle with totalFocusTime = 0 from the command on, through the
\* debounce step and the state-machine update, to the end of the iteration.
C3_StopWinsTheTick ==
    tick.stop => (currentState = "IDLE" /\ totalFocusTime = 0)

C3_Witness ==
    /\ tick.stop /\ tick.timerDue
    /\ act.name = "LoopRest" /\ pc = "loop"
    /\ currentState = "IDLE" /\ previousState = "PREPARING"

\* An iteration of loop() has just ended (by the early return of the WiFi
\* check or by running to its last statement).
TickEnded(a, p) == p = "loop" /\ a.name \in {"LoopBegin", "LoopRest"}

\* C4: START received in Idle puts the session in Preparing with
\* stateEnterTime = now, and whatever the state of the network link no
\* iteration of loop() ends with the session still Preparing once 10000 ms
\* have elapsed since Preparing was entered.
C4_PreparingEndsAfterGrace ==
    [][ /\ (Delivered(act', "START") /\ currentState = "IDLE")
            => (currentState' = "PREPARING" /\ stateEnterTime' = now)
        /\ (TickEnded(act', pc') /\ currentState' = "PREPARING")
            => Sub(now', stateEnterTime') < PREPARE_DURATION_MS ]_vars

\* C5: Preparing->Focusing is taken only with at least 10000 ms elapsed since
\* Preparing was entered; it sets focusStartTime to the current time and
\* leaves totalFocusTime unchanged.
C5_TimerTransition ==
    [][ (currentState = "PREPARING" /\ currentState' = "FOCUSING")
        => /\ Sub(now, stateEnterTime) >= PREPARE_DURATION_MS
           /\ focusStartTime' = now'
           /\ stateEnterTime' = now'
           /\ totalFocusTime' = totalFocusTime ]_vars

C5_Witness ==
    /\ act.name = "LoopRest"
    /\ currentState = "FOCUSING" /\ previousState = "PREPARING"
    /\ focusStartTime = now

\* C6: entering the current state is a no-op.  STOP or CANCEL received while
\* Idle leaves the session variables unchanged and emits nothing, and in
\* every state enterState applied to the current state returns the session
\* as it is with no message, whatever the connection flag.
C6_SelfTransitionNoOp ==
    [][ /\ \A conn \in BOOLEAN :
             EnterState(Session, currentState, conn, now)
               = [s |-> Session, out |-> <<>>]
        /\ \A c \in {"STOP", "CANCEL"} :
             (Delivered(act', c) /\ currentState = "IDLE")
             => (UNCHANGED sessionVars /\ out' = <<>>) ]_vars

C6_Witness ==
    /\ Delivered(act, "STOP")
    /\ tick.stop /\ tick.from = "IDLE"
    /\ currentState = "IDLE" /\ previousState = "PREPARING"
    /\ stateEnterTime # now
    /\ isConnectedToBackend
    /\ out = <<>>

\* C7 as stated: every change of currentState emits exactly one state_change
\* carrying the previous and the new state.
C7_AsStated ==
    [][ (currentState' # currentState /\ act'.name # "Restart")
        => /\ Len(StateChanges(out')) = 1
           /\ StateChanges(out')[1].previous_state = currentState
           /\ StateChanges(out')[1].current_state = currentState' ]_vars

\* C7 (amended): a change of currentState made by enterState emits exactly one
\* state_change carrying the previous and the new state when the backend is
\* connected at that moment, and no state_change when it is not.
C7_OneStateChangeWhenConnected ==
    [][ (currentState' # currentState /\ act'.name # "Restart")
        => IF isConnectedToBackend
           THEN /\ Len(StateChanges(out')) = 1
                /\ StateChanges(out')[1].previous_state = currentState
                /\ StateChanges(out')[1].current_state = currentState'
                /\ previousState' = currentState
           ELSE StateChanges(out') = <<>> ]_vars

C7_Witness ==
    /\ act.name = "LoopRest"
    /\ currentState = "FOCUSING"
    /\ Len(StateChanges(out)) = 1
    /\ StateChanges(out)[1].previous_state = "PREPARING"
    /\ StateChanges(out)[1].current_state = "FOCUSING"

\* C8: in Violation totalFocusTime is the sum of the durations of the
\* Focusing intervals of the session (focusAcc), whatever time was spent
\* Paused between them.
C8_FocusTimeIsSumOfIntervals ==
    currentState = "VIOLATION" => totalFocusTime = focusAcc

\* Focusing->Paused->Focusing->Violation with two Focusing intervals and a
\* pause that all lasted some time.
C8_Witness ==
    /\ currentState = "VIOLATION" /\ previousState = "FOCUSING"
    /\ focusRuns = 2
    /\ Sub(stateEnterTime, focusStartTime) > 0
    /\ totalFocusTime > Sub(stateEnterTime, focusStartTime)
    /\ Sub(stateEnterTime, firstFocusAt) > totalFocusTime

\* C9: totalFocusTime never decreases except by a transition into Idle, is 0
\* whenever the state is Idle, and ACKNOWLEDGE in Violation leads to Idle
\* with totalFocusTime = 0.
C9_FocusTimeMonotone ==
    [][ /\ (currentState' # "IDLE" => totalFocusTime' >= totalFocusTime)
        /\ (totalFocusTime' < totalFocusTime
              => (currentState' = "IDLE" /\ currentState # "IDLE"))
        /\ (currentState' = "IDLE" => totalFocusTime' = 0)
        /\ ((Delivered(act', "ACKNOWLEDGE") /\ currentState = "VIOLATION")
              => (currentState' = "IDLE" /\ totalFocusTime' = 0)) ]_vars

C9_Witness ==
    /\ Delivered(act, "ACKNOWLEDGE")
    /\ currentState = "IDLE" /\ previousState = "VIOLATION"
    /\ totalFocusTime = 0
    /\ Len(out) = 1 /\ out[1].total_focus_time_ms = 0

\* The burst b is a bounce open, closed, open of a lid that was settled and
\* closed while the session was Focusing, all within the debounce window.
BounceOpenClosedOpen(b) ==
    /\ b.n = 3 /\ b.opening /\ b.focusing
    /\ Sub(b.last, b.first) < IR_DEBOUNCE_MS

\* C10 as stated: the debounce step that resolves a bounce open, closed, open
\* within 50 ms makes no transition into Violation.
C10_AsStated ==
    [][ (act'.name = "IrReadPin" /\ BounceOpenClosedOpen(burst))
        => ~(currentState # "VIOLATION" /\ currentState' = "VIOLATION") ]_vars

\* C10 (amended): a burst of lid edges that starts on a settled lid and lasts
\* less than 50 ms causes no transition into Violation while it lasts or
\* within 50 ms of its last edge; the debounce step that resolves it, at
\* least 50 ms after the last edge, enters Violation exactly if the session
\* is Focusing, the debounced level is closed and the level the burst ended
\* on is open.
C10_NoViolationUntilSettled ==
    [][ (burst.n >= 1 /\ Sub(burst.last, burst.first) < IR_DEBOUNCE_MS)
        => /\ (currentState # "VIOLATION" /\ currentState' = "VIOLATION")
                => (act'.name = "IrReadPin"
                     /\ Sub(now, burst.last) >= IR_DEBOUNCE_MS)
           /\ act'.name = "IrReadPin"
                => /\ Sub(now, burst.last) >= IR_DEBOUNCE_MS
                   /\ (currentState # "VIOLATION" /\ currentState' = "VIOLATION")
                        <=> (currentState = "FOCUSING" /\ ~boxOpen /\ pin) ]_vars

C10_Witness ==
    /\ act.name = "IrReadPin"
    /\ BounceOpenClosedOpen(act.burst)
    /\ Sub(act.burst.last, act.burst.first) > 0
    /\ Sub(now, act.burst.last) >= IR_DEBOUNCE_MS
    /\ currentState = "VIOLATION" /\ previousState = "FOCUSING"
    /\ stateEnterTime = now

\* ------------------------------------------------------------------ heartbeat
\* The history of the heartbeat since boot: how many were sent (up to 2) and
\* the time of the last one.
ObserveBeat ==
    beat' = IF act'.name = "Restart" THEN NoBeat
            ELSE IF Sent(out', "heartbeat")
            THEN [n |-> IF beat.n < 2 THEN beat.n + 1 ELSE beat.n, at |-> now']
            ELSE beat

\* The same loop with clock advances of one heartbeat interval, under the
\* link events and the commands that lead to every session state.
BeatEvents ==
    {ev \in Events : ev.type = "TEXT" =>
        /\ ev.payload.wellFormed
        /\ ev.payload.command \in {"START", "PAUSE", "ACKNOWLEDGE"}}

ObservePulse == ObserveBeat /\ UNCHANGED <<focusHist, burst, streak, link, sense, wrap, lcd>>

NextBeat ==
    \/ (\E ev \in BeatEvents : LoopBegin(ev)) /\ ObservePulse
    \/ IrTestFlag /\ ObservePulse
    \/ IrTestElapsed /\ ObservePulse
    \/ IrClearFlag /\ ObservePulse
    \/ IrReadPin /\ ObservePulse
    \/ LoopRest /\ ObservePulse
    \/ LidEdge /\ ObservePulse
    \/ AdvanceFine /\ ObservePulse
    \/ AdvanceBeat /\ ObservePulse

SpecBeat == Init /\ [][NextBeat]_vars

\* ------------------------------------------------------------------ commands
\* The same loop as Spec under every inbound frame: malformed JSON, JSON
\* without a command, unknown tokens and PING as well.
NextCommands ==
    \/ (\E ev \in Events : LoopBegin(ev)) /\ Observe
    \/ IrTestFlag /\ Observe
    \/ IrTestElapsed /\ Observe
    \/ IrClearFlag /\ Observe
    \/ IrReadPin /\ Observe
    \/ LoopRest /\ Observe
    \/ LidEdge /\ Observe
    \/ AdvanceCoarse /\ Observe

SpecCommands == Init /\ [][NextCommands]_vars

\* ------------------------------------------------------------------ C11
Telemetry == {"sensor_data", "state_change", "heartbeat"}

\* C11: a sensor_data, state_change or heartbeat message is sent only while
\* isConnectedToBackend is true; the iteration of loop() that first sees WiFi
\* down sets the flag false and ends there; and the flag becomes true again
\* only by a WebSocket connected event, so no such message is sent in between.
C11_TelemetryOnlyWhenConnected ==
    [][ /\ \A i \in 1..Len(out') :
             out'[i].type \in Telemetry => isConnectedToBackend
        /\ (pc = "loop" /\ act'.name = "LoopBegin" /\ ~wifiUp /\ ~link.downSeen)
             => (~isConnectedToBackend' /\ pc' = "loop")
        /\ (~isConnectedToBackend /\ isConnectedToBackend')
             => (act'.name = "LoopBegin" /\ act'.ev.type = "CONNECTED") ]_vars

\* WiFi was seen down while the backend was connected, WiFi is back, and the
\* iteration that sees a sensor reading due and makes the timer transition
\* sends nothing.
C11_Witness ==
    /\ act.name = "LoopRest"
    /\ outages = 1 /\ wifiUp /\ link.wasConnected
    /\ ~isConnectedToBackend
    /\ lastSensorRead = now
    /\ currentState = "FOCUSING" /\ stateEnterTime = now
    /\ out = <<>>

C14_LinkRecovers ==
    [][ /\ (pc = "loop" /\ LoopStarted(act') /\ wifiUp /\ link.downSeen)
             => /\ act'.name = "LoopBegin"
                /\ ~wifiReconnecting' /\ ~wsSession' /\ ~isConnectedToBackend'
                /\ pc' = "ir_flag"
        /\ act'.name = "Restart"
             => Sub(now, link.downSeenAt) > WIFI_RECONNECT_TIMEOUT
        /\ ( /\ pc = "loop" /\ act'.name = "LoopBegin" /\ wifiUp /\ ~link.downSeen
              /\ act'.ev.type = "CONNECTED" )
             => (isConnectedToBackend' /\ out' = <<HardwareConnect>>)
        /\ ( /\ act'.name = "LoopRest" /\ isConnectedToBackend
              /\ Sub(currentMillis, lastSensorRead) >= SENSOR_INTERVAL_MS )
             => Sent(out', "sensor_data") ]_vars

\* The backend was connected, WiFi went down and came back before any long
\* wait, the session was opened again and sensor_data is sent.
C14_Witness ==
    /\ act.name = "LoopRest"
    /\ outages = 1 /\ wifiUp /\ ~wifiReconnecting
    /\ age.long = 0
    /\ link.offlineSince > BootMillis
    /\ isConnectedToBackend /\ link.hello
    /\ Sent(out, "sensor_data")

\* ------------------------------------------------------------------ C15
\* C15: a WebSocket connected event sends hardware_connect, once and as the
\* only message of the event; hardware_connect is sent by nothing else; and a
\* sensor_data, state_change or heartbeat message is sent only on a session on
\* which hardware_connect has been sent, so after the session is closed by a
\* WiFi reconnection none is sent until the next connected event.
C15_HelloBeforeTelemetry ==
    [][ /\ (LoopStarted(act') /\ act'.ev.type = "CONNECTED")
             => out' = <<HardwareConnect>>
        /\ Sent(out', "hardware_connect")
             => (LoopStarted(act') /\ act'.ev.type = "CONNECTED")
        /\ \A i \in 1..Len(out') : out'[i].type \in Telemetry => link.hello
        /\ (pc = "loop" /\ LoopStarted(act') /\ wifiUp /\ link.downSeen)
             => \A i \in 1..Len(out') : out'[i].type \notin Telemetry ]_vars

\* The second session of the run, opened after a WiFi reconnection, carries
\* telemetry after its hardware_connect.
C15_Witness ==
    /\ act.name = "LoopRest"
    /\ outages = 1 /\ wifiUp /\ ~wifiReconnecting
    /\ link.offlineSince > BootMillis
    /\ link.hello /\ wsSession
    /\ Sent(out, "heartbeat") /\ Sent(out, "sensor_data")

\* ------------------------------------------------------------------ C16
\* C16: a heartbeat is sent only by the last step of loop(), only while
\* isConnectedToBackend is true and only at least 5000 ms after the previous
\* heartbeat; and that step sends one exactly if the flag is true and 5000 ms
\* have passed since lastHeartbeat, whatever the session state.
C16_HeartbeatCadence ==
    [][ /\ Sent(out', "heartbeat")
             => /\ act'.name = "LoopRest" /\ isConnectedToBackend
                /\ beat.n > 0 => Sub(now', beat.at) >= HEARTBEAT_INTERVAL_MS
        /\ act'.name = "LoopRest"
             => ( Sent(out', "heartbeat")
                  <=> ( /\ isConnectedToBackend
                        /\ Sub(currentMillis, lastHeartbeat) >= HEARTBEAT_INTERVAL_MS ) )
        /\ act'.name = "LoopRest"
             => Len(SelectSeq(out', LAMBDA m : m.type = "heartbeat")) <= 1 ]_vars

\* A second heartbeat, sent in Violation.
C16_Witness ==
    /\ act.name = "LoopRest"
    /\ currentState = "VIOLATION"
    /\ Sent(out, "heartbeat")
    /\ beat.n = 2 /\ beat.at = now
    /\ out[Len(out)].state = "VIOLATION"

\* ------------------------------------------------------------------ radar
\* readRadar on a raw reading.  loop() as built passes radarPresence itself
\* (line 581), which LoopRest models; here the filter of lines 587-597 is
\* given every raw reading a decoder could supply, at the cadence of
\* readSensors: at most one call per SENSOR_INTERVAL_MS.
RadarSample(rawReading) ==
    /\ pc = "loop"
    /\ sense.calls = 0 \/ Sub(now, sense.at) >= SENSOR_INTERVAL_MS
    /\ LET radar == ReadRadar(radarPresence, radarLowStartTime, rawReading, now)
       IN /\ radarPresence' = radar.presence
          /\ radarLowStartTime' = radar.lowStart
    /\ sense' = [calls |-> 1, at |-> now, raw |-> rawReading,
                 seen |-> sense.seen \/ rawReading,
                 presentAt |-> IF rawReading THEN now ELSE sense.presentAt]
    /\ out' = <<>>
    /\ act' = Did("ReadRadar")
    /\ UNCHANGED <<sessionVars, irVars, netVars, envVars, now, currentMillis, pc,
                   age, outages, tick, focusHist, burst, streak, link, beat, lcd>>

NextRadar ==
    \/ (\E rawReading \in BOOLEAN : RadarSample(rawReading)) /\ UNCHANGED wrap
    \/ AdvanceRadar /\ UNCHANGED <<focusHist, burst, streak, link, beat, sense, wrap, lcd>>
    \/ AdvanceCoarse /\ UNCHANGED <<focusHist, burst, streak, link, beat, sense, wrap, lcd>>

SpecRadar == Init /\ [][NextRadar]_vars

\* ------------------------------------------------------------------ C18
\* C18: a raw present reading sets radarPresence and clears
\* radarLowStartTime in the same call; radarPresence falls only in a call
\* that finds radarLowStartTime set at least 3000 ms ago, and whenever it is
\* false no raw present reading was taken in the last 3000 ms.
C18_PresenceHysteresis ==
    [][ /\ (act'.name = "ReadRadar" /\ sense'.raw)
            => (radarPresence' /\ radarLowStartTime' = 0)
        /\ (radarPresence /\ ~radarPresence')
            => /\ act'.name = "ReadRadar" /\ ~sense'.raw
               /\ radarLowStartTime' > 0
               /\ Sub(now', radarLowStartTime') >= RADAR_DEBOUNCE_MS
               /\ Sub(radarLowStartTime', sense.presentAt) > 0
        /\ (~radarPresence' /\ sense'.seen)
            => Sub(now', sense'.presentAt) > RADAR_DEBOUNCE_MS ]_vars

\* Presence was asserted, and has just been cleared by a call made 3000 ms
\* after the first absent reading.
C18_Witness ==
    /\ act.name = "ReadRadar" /\ sense.seen /\ ~sense.raw
    /\ ~radarPresence
    /\ radarLowStartTime > 0
    /\ Sub(now, radarLowStartTime) = RADAR_DEBOUNCE_MS

\* ------------------------------------------------------------------ C19
\* C19: under every interleaving of irISR with the four steps of
\* processIRInterrupt, boxOpen changes only when at least 50 ms have passed
\* since the most recent raw edge.
C19_DebounceUnderConcurrency ==
    [][ (act'.name = "IrReadPin" /\ boxOpen' # boxOpen)
        => Sub(now, irTriggerTime) >= IR_DEBOUNCE_MS ]_vars

\* ------------------------------------------------------------------ C20
\* The edges of one debounce window, observed on LidEdge and IrReadPin.  A
\* streak starts at the first edge since boot or at an edge that comes at
\* least 50 ms after the edge before it, and holds the edges that follow
\* within 50 ms of its first edge; changes counts the changes of boxOpen since
\* the streak started.  An edge that follows its predecessor by less than
\* 50 ms but falls outside the window of the streak ends it (n = 0).
ObserveStreak ==
    streak' =
      CASE act'.name = "LidEdge" ->
             IF ~streak.seen \/ Sub(now, streak.last) >= IR_DEBOUNCE_MS
             THEN [seen |-> TRUE, n |-> 1, first |-> now, last |-> now,
                   changes |-> 0]
             ELSE IF streak.n > 0 /\ Sub(now, streak.first) < IR_DEBOUNCE_MS
             THEN [streak EXCEPT !.n = IF @ < BurstCap THEN @ + 1 ELSE @,
                                 !.last = now]
             ELSE [streak EXCEPT !.n = 0, !.last = now, !.changes = 0]
        [] act'.name = "IrReadPin" ->
             IF streak.n > 0 /\ boxOpen' # boxOpen
             THEN [streak EXCEPT !.changes = IF @ < ChangeCap THEN @ + 1 ELSE @]
             ELSE streak
        [] act'.name = "Restart" -> NoStreak
        [] OTHER -> streak

ObserveWindow == ObserveStreak /\ UNCHANGED <<focusHist, burst, link, beat, sense, wrap, lcd>>

NextEdges ==
    \/ (\E ev \in BounceEvents : LoopBegin(ev)) /\ ObserveWindow
    \/ IrTestFlag /\ ObserveWindow
    \/ IrTestElapsed /\ ObserveWindow
    \/ IrClearFlag /\ ObserveWindow
    \/ IrReadPin /\ ObserveWindow
    \/ LoopRest /\ ObserveWindow
    \/ LidEdge /\ ObserveWindow
    \/ AdvanceFine /\ ObserveWindow
    \/ AdvanceCoarse /\ ObserveWindow

SpecEdges == Init /\ [][NextEdges]_vars

\* C20: of a burst of lid edges delivered within one 50 ms window only the
\* latest timestamp is kept, and processIRInterrupt changes boxOpen at most
\* once for the burst.
C20_EdgeCoalescing ==
    [][ /\ act'.name = "LidEdge" => (irTriggered' /\ irTriggerTime' = now)
        /\ (act'.name = "IrReadPin" /\ streak.n > 0 /\ boxOpen' # boxOpen)
            => streak.changes = 0 ]_vars

\* ------------------------------------------------------------------ C17
Vocabulary == {"START", "STOP", "CANCEL", "PAUSE", "RESUME", "ACKNOWLEDGE", "PING"}

\* The payload is malformed JSON, has no command, or carries an unknown token.
Unusable(payload) == ~payload.wellFormed \/ payload.command \notin Vocabulary

\* C17: a text frame that is malformed JSON, has no command field or carries
\* a token outside the vocabulary (such as 'start') leaves the five session
\* variables unchanged and sends nothing.
C17_UnusablePayloadIsDropped ==
    [][ ( /\ act'.name = "LoopBegin" /\ act'.ev.type = "TEXT"
          /\ Unusable(act'.ev.payload) )
        => (UNCHANGED sessionVars /\ out' = <<>>) ]_vars

\* 'start' was received in Idle with the backend connected, where START
\* would have started a session.
C17_Witness ==
    /\ act.name = "LoopBegin" /\ act.ev.type = "TEXT"
    /\ act.ev.payload.wellFormed /\ act.ev.payload.command = "start"
    /\ isConnectedToBackend
    /\ currentState = "IDLE" /\ previousState = "FOCUSING"
    /\ out = <<>>

\* ------------------------------------------------------------------ C21
\* C21: every sensor_data message sent in an iteration of loop() carries the
\* session state and the debounced lid level that hold at the end of that
\* iteration.
C21_TickOrdering ==
    [][ act'.name = "LoopRest"
        => \A i \in 1..Len(out') :
              out'[i].type = "sensor_data"
                => /\ out'[i].state = currentState'
                   /\ out'[i].box_open = boxOpen' ]_vars

\* ------------------------------------------------------------------ C22
\* C22: every iteration of loop() made while the session is Focusing runs the
\* violation check of processIRInterrupt, and Violation is entered only by
\* the pin read of the poll loop, on a change of boxOpen to open, never by
\* the interrupt handler.
C22_ViolationCheckEveryTick ==
    [][ /\ (act'.name = "LoopBegin" /\ currentState' = "FOCUSING")
            => pc' = "ir_flag"
        /\ (currentState # "VIOLATION" /\ currentState' = "VIOLATION")
            => /\ act'.name = "IrReadPin"
               /\ currentState = "FOCUSING"
               /\ ~boxOpen /\ boxOpen' ]_vars

\* ------------------------------------------------------------------ C23
\* The actions that are steps of the poll loop (setup() after a restart
\* included).
PollLoop == {"LoopBegin", "Restart", "IrTestFlag", "IrTestElapsed", "IrClearFlag",
             "IrReadPin", "LoopRest"}

\* C23: irISR writes only irTriggered and irTriggerTime; boxOpen, the five
\* session variables and the connection variables are unchanged by it and are
\* written only by steps of the poll loop.
C23_IsrWritesOnlyFlagAndTime ==
    [][ /\ act'.name = "LidEdge"
            => /\ UNCHANGED <<boxOpen, sessionVars, netVars>>
               /\ irTriggered' /\ irTriggerTime' = now
        /\ ~UNCHANGED <<boxOpen, sessionVars, netVars>>
            => act'.name \in PollLoop ]_vars

\* irISR ran between the flag clear and the pin read of a Focusing session
\* with the lid opening.
C23_Witness ==
    /\ act.name = "LidEdge"
    /\ pc = "ir_read"
    /\ currentState = "FOCUSING"
    /\ pin /\ ~boxOpen
    /\ irTriggered /\ irTriggerTime = now

\* ------------------------------------------------------------------ clock wraparound
\* The true time, counted without wrapping from the start of the behaviour,
\* and the true times of the instants the program records: the latest lid
\* edge (irTriggerTime), the latest state entry (stateEnterTime), the start of
\* the WiFi outage (wifiReconnectStart) and the first absent radar reading of
\* the current run of absent readings (radarLowStartTime).
ObserveWrap ==
    wrap' = [clock |-> IF act'.name = "Restart" THEN wrap.clock
                       ELSE wrap.clock + Sub(now', now),
             edgeAt |-> IF act'.name = "LidEdge" THEN wrap.clock ELSE wrap.edgeAt,
             enterAt |-> IF currentState' # currentState THEN wrap.clock
                         ELSE wrap.enterAt,
             outageAt |-> IF wifiReconnecting' /\ ~wifiReconnecting THEN wrap.clock
                          ELSE wrap.outageAt,
             absentAt |-> IF act'.name = "ReadRadar" /\ ~sense'.raw /\ sense.raw
                          THEN wrap.clock ELSE wrap.absentAt]

ObserveClock == ObserveWrap /\ UNCHANGED <<focusHist, burst, streak, link, beat, sense, lcd>>

\* millis() shortly before it wraps to 0.
WrapStart == {ClockModulus - RadarStep}

\* The firmware has run idle and unconnected, with its last sensor and display
\* updates in the iteration just made, until millis() is about to wrap.
InitWrap ==
    /\ currentState = "IDLE" /\ previousState = "IDLE"
    /\ stateEnterTime = 0 /\ focusStartTime = 0 /\ totalFocusTime = 0
    /\ irTriggered = FALSE /\ irTriggerTime = 0
    /\ pin \in BOOLEAN /\ boxOpen = pin
    /\ radarPresence = FALSE /\ radarLowStartTime = 0
    /\ isConnectedToBackend = FALSE
    /\ now \in WrapStart
    /\ lastSensorRead = now /\ lastLcdUpdate = now /\ lastHeartbeat = 0
    /\ wifiReconnecting = FALSE /\ wifiReconnectStart = 0
    /\ wifiUp = TRUE /\ wsSession = FALSE
    /\ currentMillis = 0
    /\ pc = "loop"
    /\ out = <<>>
    /\ act = Did("setup")
    /\ age = [fine |-> 0, coarse |-> 0, long |-> 0, beat |-> 0, radar |-> 0] /\ outages = 0
    /\ tick = NoStop
    /\ focusAcc = 0 /\ focusSince = 0 /\ focusRuns = 0 /\ firstFocusAt = 0
    /\ burst = NoBurst
    /\ streak = NoStreak
    /\ link = NoLink
    /\ beat = NoBeat
    /\ sense = NoSense
    /\ wrap = NoWrap
    /\ lcd = <<>>

WrapEvents ==
    {ev \in Events : /\ ev.type # "DISCONNECTED"
                     /\ ev.type = "TEXT" => /\ ev.payload.wellFormed
                                            /\ ev.payload.command = "START"}

NextWrap ==
    \/ (\E ev \in WrapEvents : LoopBegin(ev)) /\ ObserveClock
    \/ IrTestFlag /\ ObserveClock
    \/ IrTestElapsed /\ ObserveClock
    \/ IrClearFlag /\ ObserveClock
    \/ IrReadPin /\ ObserveClock
    \/ LoopRest /\ ObserveClock
    \/ LidEdge /\ ObserveClock
    \/ (\E rawReading \in BOOLEAN : RadarSample(rawReading)) /\ ObserveWrap
    \/ AdvanceCoarse /\ ObserveClock
    \/ AdvanceRadar /\ ObserveClock

SpecWrap == InitWrap /\ [][NextWrap]_vars

\* The same start with WiFi outages: the loop without lid edges, radar
\* readings and commands.
WrapLinkEvents == {ev \in Events : ev.type \in {"NONE", "CONNECTED"}}

NextWrapLink ==
    \/ (\E ev \in WrapLinkEvents : LoopBegin(ev)) /\ ObserveClock
    \/ IrTestFlag /\ ObserveClock
    \/ LoopRest /\ ObserveClock
    \/ WifiDrop /\ ObserveClock
    \/ WifiRestore /\ ObserveClock
    \/ AdvanceRadar /\ ObserveClock
    \/ AdvanceLong /\ ObserveClock

SpecWrapLink == InitWrap /\ [][NextWrapLink]_vars

\* ------------------------------------------------------------------ C24
\* C24: across a wrap of millis() to 0, and when the recorded instant is
\* exactly 0, the debounce test, the Preparing timer, the presence hysteresis
\* test and the reconnect timeout give the result of the true elapsed time.
C24_DebounceAcrossWrap ==
    act'.name = "IrTestElapsed"
        => (pc' = "ir_clear" <=> wrap.clock - wrap.edgeAt >= IR_DEBOUNCE_MS)

C24_PreparingAcrossWrap ==
    (act'.name = "LoopRest" /\ currentState = "PREPARING")
        => (currentState' = "FOCUSING"
              <=> wrap.clock - wrap.enterAt >= PREPARE_DURATION_MS)

C24_ReconnectAcrossWrap ==
    (LoopStarted(act') /\ ~wifiUp /\ wifiReconnecting)
        => (act'.name = "Restart"
              <=> wrap.clock - wrap.outageAt > WIFI_RECONNECT_TIMEOUT)

C24_HysteresisAcrossWrap ==
    (act'.name = "ReadRadar" /\ radarPresence /\ ~sense'.raw)
        => (~radarPresence'
              <=> wrap'.clock - wrap'.absentAt >= RADAR_DEBOUNCE_MS)

StatePairs ==
    {<<"IDLE", "IDLE">>, <<"IDLE", "PREPARING">>, <<"PREPARING", "FOCUSING">>,
     <<"PAUSED", "FOCUSING">>, <<"FOCUSING", "PAUSED">>, <<"FOCUSING", "VIOLATION">>}
    \cup {<<s, "IDLE">> : s \in {"PREPARING", "FOCUSING", "PAUSED", "VIOLATION"}}

\* C25: in every reachable state (previousState, currentState) is a pair of
\* the transition table, and (Idle, Idle) occurs only before the first
\* transition since boot; so currentState is never ERROR, and Paused and
\* Violation are entered only from Focusing.
C25_StatePairs ==
    /\ <<previousState, currentState>> \in StatePairs
    /\ (previousState = "IDLE" /\ currentState = "IDLE") => stateEnterTime = 0
    /\ currentState # "ERROR"

\* Focusing was resumed from Paused.
C25_Witness ==
    /\ act.name = "LoopBegin" /\ act.ev.payload.command = "RESUME"
    /\ previousState = "PAUSED" /\ currentState = "FOCUSING"
    /\ stateEnterTime = now

\* ------------------------------------------------------------------ C26
\* C26: at the end of every iteration of loop() in which the session is
\* Focusing the debounced lid level boxOpen is false.
C26_FocusingLidClosed ==
    (act.name = "LoopRest" /\ currentState = "FOCUSING") => ~boxOpen

\* ------------------------------------------------------------------ C27
\* C27: every state_change message for a transition into Idle carries
\* total_focus_time_ms = 0, whatever the source state, and the transition
\* leaves totalFocusTime at 0.
C27_IdleReportsZero ==
    [][ /\ \A i \in 1..Len(out') :
              (out'[i].type = "state_change" /\ out'[i].current_state = "IDLE")
                => out'[i].total_focus_time_ms = 0
        /\ (currentState # "IDLE" /\ currentState' = "IDLE")
              => totalFocusTime' = 0 ]_vars

\* STOP or CANCEL ended a Focusing interval of non-zero length and the
\* message reports 0.
C27_Witness ==
    /\ act.name = "LoopBegin" /\ act.ev.payload.command \in {"STOP", "CANCEL"}
    /\ previousState = "FOCUSING" /\ currentState = "IDLE"
    /\ Sub(now, focusStartTime) > 0
    /\ Len(out) = 1 /\ out[1].type = "state_change"
    /\ out[1].previous_state = "FOCUSING" /\ out[1].current_state = "IDLE"
    /\ out[1].total_focus_time_ms = 0

\* ------------------------------------------------------------------ display
\* What the iteration of loop() writes to the display: updateLCD runs in
\* LoopRest when the display interval is due, after sendSensorData and before
\* updateStateMachine, on the state the iteration started LoopRest with.
ObserveLcd ==
    lcd' = IF act'.name = "LoopRest" /\ LcdDue(currentMillis, lastLcdUpdate)
           THEN UpdateLCD(currentState, now, stateEnterTime)
           ELSE <<>>

ObserveDisplay == ObserveLcd /\ UNCHANGED <<focusHist, burst, streak, link, beat, sense, wrap>>

NextLcd ==
    \/ (\E ev \in WifiEvents : LoopBegin(ev)) /\ ObserveDisplay
    \/ IrTestFlag /\ ObserveDisplay
    \/ LoopRest /\ ObserveDisplay
    \/ AdvanceFine /\ ObserveDisplay
    \/ AdvanceCoarse /\ ObserveDisplay

SpecLcd == Init /\ [][NextLcd]_vars

\* ------------------------------------------------------------------ C28
\* C28: whenever lcdShowPreparing runs, the remaining time
\* PREPARE_DURATION_MS - (millis() - stateEnterTime) lies between 0 and
\* 10000 ms: the unsigned subtraction does not underflow.
C28_RemainingInRange ==
    \A i \in 1..Len(lcd) :
        lcd[i].screen = "PREPARING"
          => (lcd[i].remaining >= 0 /\ lcd[i].remaining <= PREPARE_DURATION_MS)

\* ------------------------------------------------------------------ setup
\* initIRSensor reads the pin into boxOpen and attaches irISR afterwards: a raw
\* edge between the two changes the level without running the handler.  Init
\* is setup() without such an edge; this is the edge, before the first
\* iteration of loop().
SetupEdge ==
    /\ act.name = "setup"
    /\ pin' = ~pin
    /\ out' = <<>>
    /\ act' = Did("SetupEdge")
    /\ UNCHANGED <<sessionVars, irVars, radarVars, netVars, wifiUp, wsSession, now,
                   currentMillis, pc, age, outages, tick>>

NextSetup ==
    \/ SetupEdge /\ Observe
    \/ (\E ev \in BounceEvents : LoopBegin(ev)) /\ Observe
    \/ IrTestFlag /\ Observe
    \/ IrTestElapsed /\ Observe
    \/ IrClearFlag /\ Observe
    \/ IrReadPin /\ Observe
    \/ LoopRest /\ Observe
    \/ LidEdge /\ Observe
    \/ AdvanceFine /\ Observe
    \/ AdvanceCoarse /\ Observe

SpecSetup == Init /\ [][NextSetup]_vars

\* ------------------------------------------------------------------ C29
\* C29: between two iterations of loop(), whenever no edge is pending boxOpen
\* is the raw lid level.
C29_NoEdgeLost ==
    (pc = "loop" /\ ~irTriggered /\ act.name \notin {"setup", "SetupEdge"})
        => boxOpen = pin

====
